---- MODULE Spec2Model ----
(***************************************************************************)
(* Model of doc/ext/local.py, the Sphinx extension of libswoc: the domain  *)
(* class SWOCDomain, the role function make_github_link and the extension  *)
(* entry point setup, together with the parts of the host (Python's call   *)
(* protocol, docutils' node constructor and role registry, Sphinx's        *)
(* component registry) that the three of them act on.                      *)
(*                                                                         *)
(* Python strings are sequences of one-character strings.  A dict is a     *)
(* sequence of <<key, value>> pairs with distinct keys, in insertion       *)
(* order.  os.path is posixpath (the documentation is built on POSIX).     *)
(***************************************************************************)
EXTENDS Integers, Sequences, FiniteSets, TLC

\* Longest path string handed to the role.
MaxLen == 3
\* Most calls of setup in one process.
MaxSetup == 2
\* Most entries of an options mapping.
MaxOpts == 2

\* Characters of path strings: a letter, the separator, a format brace.
PathChars == {"a", "/", "{"}
\* Host application instances.
Apps == {"app1", "app2"}
\* Keys and values an options mapping may hold.
OptionKeys == {"classes", "Classes", "refuri", "refURI"}
OptionValues == {<<"v">>, <<"w">>}

VARIABLES
    role_registry,    \* docutils.parsers.rst.roles._role_registry (process-wide)
    domains,          \* app.registry.domains, per application
    domain_roles,     \* app.registry.domain_roles, per application
    SWOCDomain,       \* the class attributes of SWOCDomain
    default_options,  \* the dict object bound to the default options={}
    default_content,  \* the list object bound to the default content=[]
    nobj,             \* role objects allocated so far (object identity)
    nsetup,           \* calls of setup so far
    pc,               \* where the interpreter is
    frame             \* the running or just finished call

vars == <<role_registry, domains, domain_roles, SWOCDomain, default_options,
          default_content, nobj, nsetup, pc, frame>>

-----------------------------------------------------------------------------
\* Strings and dicts

Paths == UNION {[1..n -> PathChars] : n \in 0..MaxLen}

\* The dicts of at most n entries with keys in K, in every insertion order.
RECURSIVE DictsOver(_, _)
DictsOver(K, n) ==
    IF n = 0 THEN {<<>>}
    ELSE {<<>>} \cup UNION {{<<<<k, v>>>> \o d : d \in DictsOver(K \ {k}, n - 1),
                                               v \in OptionValues} : k \in K}

OptionDicts == DictsOver(OptionKeys, MaxOpts)

keys(d) == {d[i][1] : i \in 1..Len(d)}

get(d, k) == d[CHOOSE i \in 1..Len(d) : d[i][1] = k][2]

\* str.lower on the keys of the model.
lower(k) ==
    CASE k = "refURI" -> "refuri"
      [] k = "Classes" -> "classes"
      [] OTHER -> k

\* str.rfind(c): the 0-based index of the last c in s, -1 when there is none.
RECURSIVE rfind_from(_, _, _)
rfind_from(s, c, j) ==
    IF j = 0 THEN -1
    ELSE IF s[j] = c THEN j - 1
    ELSE rfind_from(s, c, j - 1)

rfind(s, c) == rfind_from(s, c, Len(s))

\* posixpath.basename: i = p.rfind('/') + 1; return p[i:]
basename(p) ==
    LET i == rfind(p, "/") + 1
    IN  SubSeq(p, i + 1, Len(p))

\* str.format with positional auto-numbered fields: the template is scanned,
\* each {} is replaced by the next argument, every other character is copied.
\* The arguments are inserted as they are, never scanned.
RECURSIVE format_from(_, _, _, _)
format_from(t, i, args, k) ==
    IF i > Len(t) THEN <<>>
    ELSE IF t[i] = "{" /\ i < Len(t) /\ t[i + 1] = "}"
    THEN args[k] \o format_from(t, i + 2, args, k + 1)
    ELSE <<t[i]>> \o format_from(t, i + 1, args, k)

format(t, args) == format_from(t, 1, args, 1)

url == <<"h", "t", "t", "p", "s", ":", "/", "/", "g", "i", "t", "h", "u", "b",
         ".", "c", "o", "m", "/", "S", "o", "l", "i", "d", "W", "a", "l", "l",
         "O", "f", "C", "o", "d", "e", "/", "l", "i", "b", "s", "w", "o", "c",
         "/", "b", "l", "o", "b", "/", "{", "}", "/", "{", "}">>

ref == <<"m", "a", "s", "t", "e", "r">>

-----------------------------------------------------------------------------
\* docutils.nodes

\* Element.list_attributes: every element starts with these set to [].
list_attributes == {"ids", "classes", "names", "dupnames", "backrefs"}

\* value[:], the copy Element.__init__ stores for a list attribute.
slice_copy(value) == SubSeq(value, 1, Len(value))

\* Element.__init__'s loop over **attributes: each name is lowercased and
\* assigned in order, so a later entry overwrites an earlier one of the same
\* lowercased name; the value of a list attribute is copied.
RECURSIVE set_attributes(_, _, _)
set_attributes(attrs, kw, i) ==
    IF i > Len(kw) THEN attrs
    ELSE LET att == lower(kw[i][1])
             val == IF att \in list_attributes THEN slice_copy(kw[i][2]) ELSE kw[i][2]
             nxt == [n \in DOMAIN attrs \cup {att} |-> IF n = att THEN val ELSE attrs[n]]
         IN  set_attributes(nxt, kw, i + 1)

\* nodes.reference(rawsource, text, **attributes): a TextElement, which holds
\* one Text child unless text is ''.
reference(rawsource, text, attributes) ==
    [tag        |-> "reference",
     rawsource  |-> rawsource,
     children   |-> IF text # <<>> THEN <<text>> ELSE <<>>,
     attributes |-> set_attributes([n \in list_attributes |-> <<>>], attributes, 1)]

\* Node.astext() of a TextElement: its children's text, joined.
RECURSIVE join(_)
join(ss) == IF ss = <<>> THEN <<>> ELSE Head(ss) \o join(Tail(ss))

astext(node) == join(node.children)

-----------------------------------------------------------------------------
\* make_github_link

\* A variant that stores the link in the options dict it was handed
\* (options['refuri'] = ...) and passes that dict on.
make_github_link_inplace(name, rawtext, text, lineno, inliner, options, content) ==
    LET link == <<"refuri", format(url, <<ref, text>>)>>
        opts == IF "refuri" \in keys(options)
                THEN [i \in 1..Len(options) |->
                         IF options[i][1] = "refuri" THEN link ELSE options[i]]
                ELSE Append(options, link)
    IN  [raised  |-> FALSE,
         value   |-> <<<<reference(rawtext, basename(text), opts)>>, <<>>>>,
         options |-> opts,
         content |-> content]

\* A variant that shows the whole path, not its basename.
make_github_link_fulltext(name, rawtext, text, lineno, inliner, options, content) ==
    IF "refuri" \in keys(options)
    THEN [raised  |-> TRUE,
          value   |-> "TypeError",
          options |-> options,
          content |-> content]
    ELSE LET kw == <<<<"refuri", format(url, <<ref, text>>)>>>> \o options
         IN  [raised  |-> FALSE,
              value   |-> <<<<reference(rawtext, text, kw)>>, <<>>>>,
              options |-> options,
              content |-> content]

\* A variant that does not pass the options on.
make_github_link_dropopts(name, rawtext, text, lineno, inliner, options, content) ==
    [raised  |-> FALSE,
     value   |-> <<<<reference(rawtext, basename(text),
                              <<<<"refuri", format(url, <<ref, text>>)>>>>)>>, <<>>>>,
     options |-> options,
     content |-> content]

\* The result of a call: what it returned or raised, and the state it left
\* the two mutable argument objects in.
make_github_link(name, rawtext, text, lineno, inliner, options, content) ==
    IF "refuri" \in keys(options)
    THEN \* refuri=... and **options name the same keyword: the call on line
         \* 22 raises TypeError before the constructor runs.
         [raised  |-> TRUE,
          value   |-> "TypeError",
          options |-> options,
          content |-> content]
    ELSE LET kw   == <<<<"refuri", format(url, <<ref, text>>)>>>> \o options
             node == reference(rawtext, basename(text), kw)
         IN  [raised  |-> FALSE,
              value   |-> <<<<node>>, <<>>>>,
              options |-> options,
              content |-> content]

-----------------------------------------------------------------------------
\* The host's registries

\* roles.register_generic_role(canonical_name, node_class): a new GenericRole
\* object is stored under the name, replacing whatever was there.
register_generic_role(registry, canonical_name, node_class, obj) ==
    (canonical_name :> [name |-> canonical_name, node_class |-> node_class, obj |-> obj])
    @@ registry

\* A variant with one domain registry for all applications.
add_domain_shared(doms, app, cls, attrs) ==
    IF \E a \in Apps : attrs.name \in DOMAIN doms[a]
    THEN [raised |-> TRUE, domains |-> doms]
    ELSE [raised |-> FALSE, domains |-> [a \in Apps |-> (attrs.name :> cls) @@ doms[a]]]

\* app.add_domain(domain): a registered name is refused with ExtensionError.
add_domain(doms, app, cls, attrs) ==
    IF attrs.name \in DOMAIN doms[app]
    THEN [raised |-> TRUE, domains |-> doms]
    ELSE [raised |-> FALSE,
          domains |-> [doms EXCEPT ![app] = (attrs.name :> cls) @@ doms[app]]]

\* app.add_role_to_domain(domain, name, role): refused with ExtensionError when
\* the domain is not registered or already has a role of that name.
add_role_to_domain(doms, droles, app, domain, name, role) ==
    IF domain \notin DOMAIN doms[app]
    THEN [raised |-> TRUE, domain_roles |-> droles]
    ELSE LET roles == IF domain \in DOMAIN droles[app] THEN droles[app][domain] ELSE <<>>
         IN  IF name \in DOMAIN roles
             THEN [raised |-> TRUE, domain_roles |-> droles]
             ELSE [raised |-> FALSE,
                   domain_roles |->
                       [droles EXCEPT ![app] = (domain :> ((name :> role) @@ roles)) @@ droles[app]]]

\* The role function that :domain:name: markup resolves to in an application.
dispatch(doms, droles, app, domain, name) ==
    IF /\ domain \in DOMAIN doms[app]
       /\ domain \in DOMAIN droles[app]
       /\ name \in DOMAIN droles[app][domain]
    THEN droles[app][domain][name]
    ELSE "None"

\* The raw markup the inliner hands to the role, :swoc:git: and the text
\* between two backquotes (written BQ here).
rawtext_of(text) == <<":", "s", "w", "o", "c", ":", "g", "i", "t", ":", "BQ">> \o text \o <<"BQ">>

-----------------------------------------------------------------------------
\* The state machine

NoFrame == [fn |-> "none"]

BuiltinRoles ==
    ("emphasis" :> [name |-> "emphasis", node_class |-> "emphasis", obj |-> 1])
    @@ ("literal" :> [name |-> "literal", node_class |-> "literal", obj |-> 2])
    @@ ("strong" :> [name |-> "strong", node_class |-> "strong", obj |-> 3])

BuiltinDomains == ("std" :> "StandardDomain")

Init ==
    /\ role_registry = BuiltinRoles
    /\ domains = [a \in Apps |-> BuiltinDomains]
    /\ domain_roles = [a \in Apps |-> <<>>]
    /\ SWOCDomain = [name |-> "swoc", label |-> "SWOC", data_version |-> 1]
    /\ default_options = <<>>
    /\ default_content = <<>>
    /\ nobj = 3
    /\ nsetup = 0
    /\ pc = "idle"
    /\ frame = NoFrame

\* A variant without line 33.
setup_next_no33(line) ==
    CASE line = "setup26" -> "setup27"
      [] line = "setup27" -> "setup28"
      [] line = "setup28" -> "setup30"
      [] line = "setup30" -> "setup_returned"

\* A variant with lines 30 and 33 in the other order.
setup_next_swapped(line) ==
    CASE line = "setup26" -> "setup27"
      [] line = "setup27" -> "setup28"
      [] line = "setup28" -> "setup33"
      [] line = "setup33" -> "setup30"
      [] line = "setup30" -> "setup_returned"

\* The statement of setup that follows a statement that did not raise.
setup_next(line) ==
    CASE line = "setup26" -> "setup27"
      [] line = "setup27" -> "setup28"
      [] line = "setup28" -> "setup30"
      [] line = "setup30" -> "setup33"
      [] line = "setup33" -> "setup_returned"

\* The host (or any caller) calls setup(app).
SetupCall(a) ==
    /\ pc = "idle"
    /\ nsetup < MaxSetup
    /\ nsetup' = nsetup + 1
    /\ frame' = [fn |-> "setup", app |-> a, base |-> nobj]
    /\ pc' = "setup26"
    /\ UNCHANGED <<role_registry, domains, domain_roles, SWOCDomain,
                   default_options, default_content, nobj>>

\* Lines 26 to 28: rst.roles.register_generic_role(canonical_name, node_class).
GenericRoleStep(line, canonical_name, node_class) ==
    /\ pc = line
    /\ role_registry' = register_generic_role(role_registry, canonical_name, node_class, nobj + 1)
    /\ nobj' = nobj + 1
    /\ pc' = setup_next(line)
    /\ UNCHANGED <<domains, domain_roles, SWOCDomain, default_options,
                   default_content, nsetup, frame>>

Setup26 == GenericRoleStep("setup26", "arg", "emphasis")

Setup27 == GenericRoleStep("setup27", "const", "literal")

Setup28 == GenericRoleStep("setup28", "pack", "strong")

\* A variant of line 30 that also counts the registration in the class's
\* data_version.
Setup30_versioned ==
    /\ pc = "setup30"
    /\ LET r == add_domain(domains, frame.app, "SWOCDomain", SWOCDomain)
       IN  /\ domains' = r.domains
           /\ pc' = IF r.raised THEN "setup_raised" ELSE setup_next("setup30")
    /\ SWOCDomain' = [SWOCDomain EXCEPT !.data_version = @ + 1]
    /\ UNCHANGED <<role_registry, domain_roles, default_options,
                   default_content, nobj, nsetup, frame>>

\* A variant of line 30 that unregisters the generic roles when add_domain
\* raises.
Setup30_rollback ==
    /\ pc = "setup30"
    /\ LET r == add_domain(domains, frame.app, "SWOCDomain", SWOCDomain)
       IN  /\ domains' = r.domains
           /\ pc' = IF r.raised THEN "setup_raised" ELSE setup_next("setup30")
           /\ role_registry' =
                  IF r.raised
                  THEN [n \in DOMAIN role_registry \ {"arg", "const", "pack"} |-> role_registry[n]]
                  ELSE role_registry
    /\ UNCHANGED <<domain_roles, SWOCDomain, default_options,
                   default_content, nobj, nsetup, frame>>

\* A variant of line 30 on a domain registry that the applications share.
Setup30_shared ==
    /\ pc = "setup30"
    /\ LET r == add_domain_shared(domains, frame.app, "SWOCDomain", SWOCDomain)
       IN  /\ domains' = r.domains
           /\ pc' = IF r.raised THEN "setup_raised" ELSE setup_next("setup30")
    /\ UNCHANGED <<role_registry, domain_roles, SWOCDomain, default_options,
                   default_content, nobj, nsetup, frame>>

\* Line 30: app.add_domain(SWOCDomain).
Setup30 ==
    /\ pc = "setup30"
    /\ LET r == add_domain(domains, frame.app, "SWOCDomain", SWOCDomain)
       IN  /\ domains' = r.domains
           /\ pc' = IF r.raised THEN "setup_raised" ELSE setup_next("setup30")
    /\ UNCHANGED <<role_registry, domain_roles, SWOCDomain, default_options,
                   default_content, nobj, nsetup, frame>>

\* Line 33: app.add_role_to_domain('swoc', 'git', make_github_link).
Setup33 ==
    /\ pc = "setup33"
    /\ LET r == add_role_to_domain(domains, domain_roles, frame.app,
                                   "swoc", "git", "make_github_link")
       IN  /\ domain_roles' = r.domain_roles
           /\ pc' = IF r.raised THEN "setup_raised" ELSE setup_next("setup33")
    /\ UNCHANGED <<role_registry, domains, SWOCDomain, default_options,
                   default_content, nobj, nsetup, frame>>

\* :swoc:git:`text` in a document of application a: the inliner calls the role
\* with five arguments, so options and content are the shared defaults.
Interpreted ==
    /\ pc = "idle"
    /\ \E a \in Apps :
        /\ dispatch(domains, domain_roles, a, "swoc", "git") = "make_github_link"
        /\ \E text \in Paths :
            LET r == make_github_link("git", rawtext_of(text), text, 1, "inliner",
                                      default_options, default_content)
            IN  /\ frame' = [fn |-> "make_github_link", text |-> text,
                             use_default |-> TRUE, options |-> default_options,
                             content |-> default_content, result |-> r]
                /\ default_options' = r.options
                /\ default_content' = r.content
                /\ pc' = IF r.raised THEN "link_raised" ELSE "link_returned"
    /\ UNCHANGED <<role_registry, domains, domain_roles, SWOCDomain, nobj, nsetup>>

\* The same markup through a role customised with options: the caller passes
\* its own options dict and content list.
CustomRole ==
    /\ pc = "idle"
    /\ \E a \in Apps :
        /\ dispatch(domains, domain_roles, a, "swoc", "git") = "make_github_link"
        /\ \E text \in Paths, opts \in OptionDicts :
            LET r == make_github_link("git", rawtext_of(text), text, 1, "inliner",
                                      opts, <<>>)
            IN  /\ frame' = [fn |-> "make_github_link", text |-> text,
                             use_default |-> FALSE, options |-> opts,
                             content |-> <<>>, result |-> r]
                /\ pc' = IF r.raised THEN "link_raised" ELSE "link_returned"
    /\ UNCHANGED <<role_registry, domains, domain_roles, SWOCDomain,
                   default_options, default_content, nobj, nsetup>>

\* The caller takes the result (or the exception) and the frame is gone.
HostResume ==
    /\ pc \in {"setup_returned", "setup_raised", "link_returned", "link_raised"}
    /\ pc' = "idle"
    /\ frame' = NoFrame
    /\ UNCHANGED <<role_registry, domains, domain_roles, SWOCDomain,
                   default_options, default_content, nobj, nsetup>>

Next ==
    \/ \E a \in Apps : SetupCall(a)
    \/ Setup26
    \/ Setup27
    \/ Setup28
    \/ Setup30
    \/ Setup33
    \/ Interpreted
    \/ CustomRole
    \/ HostResume

Spec == Init /\ [][Next]_vars

-----------------------------------------------------------------------------
\* Properties

\* 'https://github.com/SolidWallOfCode/libswoc/blob/master/'
MasterLink ==
    <<"h", "t", "t", "p", "s", ":", "/", "/", "g", "i", "t", "h", "u", "b",
      ".", "c", "o", "m", "/", "S", "o", "l", "i", "d", "W", "a", "l", "l",
      "O", "f", "C", "o", "d", "e", "/", "l", "i", "b", "s", "w", "o", "c",
      "/", "b", "l", "o", "b", "/", "m", "a", "s", "t", "e", "r", "/">>

\* The node a call that returned has produced.
LinkNode == frame.result.value[1][1]

LinkCalled == pc \in {"link_returned", "link_raised"}

SetupLines == {"setup26", "setup27", "setup28", "setup30", "setup33"}

\* The names an options dict gives to node attributes.
AttributeNames(d) == {lower(k) : k \in keys(d)}

\* d is the part of p after its last separator.
IsFinalSegment(d, p) ==
    /\ \A j \in 1..Len(d) : d[j] # "/"
    /\ \/ d = p
       \/ \E q \in 0..(Len(p) - 1) : /\ p[q + 1] = "/"
                                     /\ d = SubSeq(p, q + 2, Len(p))

\* C1: for every path p and whatever the other arguments are, the link
\* (refuri) of the produced node is MasterLink followed by the whole of p.
C1_LinkIsMasterTemplate ==
    pc = "link_returned" => LinkNode.attributes["refuri"] = MasterLink \o frame.text

\* C2: the display text of the produced node is the part of the path after
\* its last '/': the path itself when it has no separator, empty when the path
\* is empty or ends with a separator; and the link embeds the whole path, not
\* the final segment (in every call whose options do not themselves name the
\* link).
C2_DisplayTextIsFinalSegment ==
    pc = "link_returned" =>
        LET p == frame.text
            d == astext(LinkNode)
        IN  /\ IsFinalSegment(d, p)
            /\ (\A j \in 1..Len(p) : p[j] # "/") => d = p
            /\ (p = <<>> \/ p[Len(p)] = "/") => d = <<>>
            /\ "refuri" \notin AttributeNames(frame.options) =>
                   LinkNode.attributes["refuri"] = MasterLink \o p

C2_Witness ==
    /\ pc = "link_returned"
    /\ frame.text = <<"/", "a", "/">>
    /\ astext(LinkNode) = <<>>
    /\ LinkNode.attributes["refuri"] = MasterLink \o <<"/", "a", "/">>

\* C3: make_github_link has no failure path: for every path and every options
\* mapping the call returns, and what it returns is a list of exactly one
\* reference node and an empty list of messages.
C3_NoFailurePath ==
    LinkCalled =>
        /\ ~frame.result.raised
        /\ Len(frame.result.value[1]) = 1
        /\ frame.result.value[1][1].tag = "reference"
        /\ frame.result.value[2] = <<>>

\* C4: when setup(app) has returned, the registries hold 'arg' -> emphasis,
\* 'const' -> literal, 'pack' -> strong, the domain 'swoc' in the application,
\* and 'git' of 'swoc' -> make_github_link, to which :swoc:git: markup is
\* dispatched; on a fresh host these are the only additions.
C4_SetupRegisters ==
    pc = "setup_returned" =>
        LET a == frame.app
        IN  /\ DOMAIN role_registry = DOMAIN BuiltinRoles \cup {"arg", "const", "pack"}
            /\ \A n \in DOMAIN BuiltinRoles : role_registry[n] = BuiltinRoles[n]
            /\ role_registry["arg"].node_class = "emphasis"
            /\ role_registry["const"].node_class = "literal"
            /\ role_registry["pack"].node_class = "strong"
            /\ domains[a] = ("swoc" :> "SWOCDomain") @@ BuiltinDomains
            /\ domain_roles[a] = ("swoc" :> ("git" :> "make_github_link"))
            /\ dispatch(domains, domain_roles, a, "swoc", "git") = "make_github_link"
            /\ nsetup = 1 => \A b \in Apps \ {a} : /\ domains[b] = BuiltinDomains
                                                   /\ domain_roles[b] = <<>>

C4_Witness ==
    /\ pc = "setup_returned"
    /\ nsetup = 1
    /\ dispatch(domains, domain_roles, frame.app, "swoc", "git") = "make_github_link"

\* The generic roles in the registry are the objects this call of setup made.
RolesOfThisCall ==
    /\ role_registry["arg"] = [name |-> "arg", node_class |-> "emphasis", obj |-> frame.base + 1]
    /\ role_registry["const"] = [name |-> "const", node_class |-> "literal", obj |-> frame.base + 2]
    /\ role_registry["pack"] = [name |-> "pack", node_class |-> "strong", obj |-> frame.base + 3]

\* C5 as claimed: registration is all-or-nothing, so when a step of setup has
\* raised, no registration made by that call is left in any registry.
C5_AllOrNothing ==
    pc = "setup_raised" =>
        \A n \in DOMAIN role_registry : role_registry[n].obj <= frame.base

\* C5 as amended: when a step of setup raises, the error leaves setup, the
\* failing step has changed nothing, and the generic roles the earlier steps
\* of that call registered stay registered: nothing is rolled back.
C5_RaiseKeepsEarlierSteps ==
    [][(pc' = "setup_raised" /\ pc # "setup_raised") =>
           /\ pc \in {"setup30", "setup33"}
           /\ role_registry' = role_registry
           /\ domains' = domains
           /\ domain_roles' = domain_roles
           /\ RolesOfThisCall']_vars

C5_Witness ==
    /\ pc = "setup_raised"
    /\ RolesOfThisCall
    /\ "swoc" \in DOMAIN domains[frame.app]

\* What an application's documents can resolve: the process-wide role
\* registry and the application's own registries.
VisibleTo(b) == <<role_registry, domains[b], domain_roles[b]>>

\* C6 as claimed: setup on one application writes nothing that another
\* application sees.
C6_NothingShared ==
    [][\A a \in Apps :
           (pc \in SetupLines /\ frame.app = a) =>
               \A b \in Apps \ {a} : VisibleTo(b)' = VisibleTo(b)]_vars

\* C6 as amended: setup on one application leaves the domain registry and the
\* domain roles of every other application alone, and when it returns the
\* application has its own 'swoc' domain and 'git' role; the three generic
\* roles go to the one role registry of the process, which all share.
C6_AppRegistriesIndependent ==
    [][\A a \in Apps :
           (pc \in SetupLines /\ frame.app = a) =>
               /\ \A b \in Apps \ {a} : /\ domains'[b] = domains[b]
                                        /\ domain_roles'[b] = domain_roles[b]
               /\ pc' = "setup_returned" =>
                      /\ domains'[a]["swoc"] = "SWOCDomain"
                      /\ dispatch(domains', domain_roles', a, "swoc", "git")
                             = "make_github_link"]_vars

C6_Witness ==
    /\ pc = "setup_returned"
    /\ \A a \in Apps : dispatch(domains, domain_roles, a, "swoc", "git") = "make_github_link"

LastNaming(d, n) ==
    d[CHOOSE i \in 1..Len(d) :
          /\ lower(d[i][1]) = n
          /\ \A j \in (i + 1)..Len(d) : lower(d[j][1]) # n]

C8_NoSideEffects ==
    /\ [](/\ default_options = <<>>
          /\ default_content = <<>>
          /\ LinkCalled =>
                 /\ frame.result.options = frame.options
                 /\ frame.result.content = frame.content
                 /\ frame.use_default =>
                        /\ pc = "link_returned"
                        /\ astext(LinkNode) = basename(frame.text)
                        /\ LinkNode.attributes =
                               [n \in list_attributes \cup {"refuri"} |->
                                   IF n = "refuri" THEN MasterLink \o frame.text ELSE <<>>])
    /\ [][LinkCalled' /\ ~LinkCalled =>
              /\ role_registry' = role_registry
              /\ domains' = domains
              /\ domain_roles' = domain_roles
              /\ SWOCDomain' = SWOCDomain]_vars

C8_Witness ==
    /\ pc = "link_returned"
    /\ frame.use_default
    /\ frame.text = <<"a", "/", "{">>
    /\ default_options = <<>>

\* C9: in every state that calls of setup and make_github_link reach, the
\* domain class has name 'swoc', label 'SWOC' and data_version 1.
C9_DomainIdentityFixed ==
    SWOCDomain = [name |-> "swoc", label |-> "SWOC", data_version |-> 1]

C9_Witness ==
    /\ pc = "link_returned"
    /\ nsetup = 2
    /\ SWOCDomain.data_version = 1

\* C10: setup registers the three generic roles, then the domain, then the
\* role of the domain: when add_domain is issued the three roles of this call
\* are registered, and when add_role_to_domain is issued the domain 'swoc' is
\* in the application's domain registry as well.
C10_SetupOrder ==
    /\ pc \in {"setup27", "setup28", "setup30", "setup33"} =>
           role_registry["arg"].obj = frame.base + 1
    /\ pc \in {"setup28", "setup30", "setup33"} =>
           role_registry["const"].obj = frame.base + 2
    /\ pc \in {"setup30", "setup33"} => RolesOfThisCall
    /\ pc = "setup33" => "swoc" \in DOMAIN domains[frame.app]

C10_Witness ==
    /\ pc = "setup33"
    /\ RolesOfThisCall
    /\ domains[frame.app]["swoc"] = "SWOCDomain"
    /\ dispatch(domains, domain_roles, frame.app, "swoc", "git") = "None"

====
